---- MODULE Spec2Model ----
(***************************************************************************)
(* Model of tautulli_history_viewer.py: one run of the script is a chain   *)
(* of steps (load_data, the sidebar filters, then the nine tabs in order). *)
(* Times are epoch seconds; durations are kept in seconds, so that         *)
(* duration_minutes = s / 60 stays exact (10 minutes = 600).               *)
(* A missing string cell (NaN) is the string "NaN"; a missing instant      *)
(* (NaT) or number (NaN) is a record with nat/nan = TRUE.                  *)
(* Chart and widget rendering calls (st.bar_chart, ax.pie, sns.heatmap,    *)
(* st.dataframe, st.download_button) leave the modelled state unchanged.   *)
(***************************************************************************)
EXTENDS Integers, Sequences, FiniteSets

VARIABLES
    raw,              \* rows of tautulli_plex_merged_visible.csv
    df,               \* load_data()'s frame
    pc,               \* position of the script run
    sortTies,         \* how this build's quicksort orders equal keys
    user_filter, media_filter, date_range, duration_min,
    filtered,
    metrics, top_shows, top_users,
    display_df,
    monthly_summary,
    year_range, yearly_summary,
    top_n, user_summary, show_summary,
    heat_df,
    hour_summary,
    weekday_summary

inputs  == <<raw, df, sortTies>>
widgets == <<user_filter, media_filter, date_range, duration_min>>
outputs == <<metrics, top_shows, top_users, display_df, monthly_summary, year_range,
             yearly_summary, top_n, user_summary, show_summary, heat_df,
             hour_summary, weekday_summary>>
vars    == <<inputs, widgets, filtered, outputs, pc>>

(***************************************************************************)
(* Bounds and input pools.                                                 *)
(***************************************************************************)
MaxRows == 2

NA == "NaN"

Num(n)  == [kind |-> "num", n |-> n]
BadText == [kind |-> "text", n |-> 0]
Missing == [kind |-> "missing", n |-> 0]

\* 2021-01-04 (Monday) 00:10:00, 2021-01-31 (Sunday) 23:50:00,
\* 2022-02-01 (Tuesday) 20:00:00, all UTC.
Mon0010 == 18631 * 86400 + 600
Sun2350 == 18658 * 86400 + 85800
Tue2000 == 19024 * 86400 + 72000

RowPool ==
    { [rating_key |-> "k1", username |-> "alice", media_type |-> "episode",
       grandparent_title |-> "X", started |-> Num(Mon0010), stopped |-> Num(Mon0010 + 600)],
      [rating_key |-> "k2", username |-> "bob", media_type |-> "movie",
       grandparent_title |-> NA, started |-> Num(Tue2000), stopped |-> Num(Tue2000 + 600)],
      [rating_key |-> NA, username |-> "bob", media_type |-> "episode",
       grandparent_title |-> "Y", started |-> Num(Mon0010 + 3600), stopped |-> Num(Mon0010 + 5430)],
      [rating_key |-> "k1", username |-> "alice", media_type |-> "episode",
       grandparent_title |-> "X", started |-> BadText, stopped |-> Num(Mon0010 + 600)],
      [rating_key |-> "k3", username |-> "alice", media_type |-> "movie",
       grandparent_title |-> "Y", started |-> Num(Sun2350), stopped |-> Missing],
      [rating_key |-> "k3", username |-> "alice", media_type |-> "episode",
       grandparent_title |-> "Y", started |-> Num(Sun2350), stopped |-> Num(Sun2350 + 1200)] }

RawInputs == UNION { [1..n -> RowPool] : n \in 0..MaxRows }

\* Calendar days (days since 1970-01-01) offered by the date picker:
\* 2021-01-04 and 2022-02-01.
DatePicks == { 18631, 19024 }
DurationPicks == { 0, 10 }
TopNPicks == { 1, 10 }
TiePolicies == { "stable", "reversed" }

(***************************************************************************)
(* Generic helpers.                                                        *)
(***************************************************************************)
RECURSIVE SumOver(_, _)
SumOver(f, S) ==
    IF S = {} THEN 0
    ELSE LET x == CHOOSE y \in S : TRUE IN f[x] + SumOver(f, S \ {x})

Head_n(s, n) == SubSeq(s, 1, IF n < Len(s) THEN n ELSE Len(s))

\* Python / pandas lexicographic order of the strings that occur as keys.
StrRank(s) ==
    CASE s = "Friday" -> 1 [] s = "Monday" -> 2 [] s = "Saturday" -> 3
      [] s = "Sunday" -> 4 [] s = "Thursday" -> 5 [] s = "Tuesday" -> 6
      [] s = "Wednesday" -> 7 [] s = "X" -> 8 [] s = "Y" -> 9
      [] s = "alice" -> 10 [] s = "bob" -> 11
      [] s = "episode" -> 12 [] s = "movie" -> 13

(***************************************************************************)
(* Calendar fields of an instant (pandas .dt accessors, UTC-naive).        *)
(***************************************************************************)
DateOf(t) == t \div 86400
HourOf(t) == (t % 86400) \div 3600

DayNames == <<"Monday", "Tuesday", "Wednesday", "Thursday", "Friday", "Saturday", "Sunday">>
\* 1970-01-01 was a Thursday.
DayName(t) == DayNames[((DateOf(t) + 3) % 7) + 1]

\* Proleptic Gregorian year and month of a day number.
CivilOf(days) ==
    LET z   == days + 719468
        era == z \div 146097
        doe == z - era * 146097
        yoe == (doe - doe \div 1460 + doe \div 36524 - doe \div 146096) \div 365
        doy == doe - (365 * yoe + yoe \div 4 - yoe \div 100)
        mp  == (5 * doy + 2) \div 153
        m   == IF mp < 10 THEN mp + 3 ELSE mp - 9
        y   == yoe + era * 400 + (IF m <= 2 THEN 1 ELSE 0)
    IN [year |-> y, month |-> m]

YearOf(t)  == CivilOf(DateOf(t)).year
\* A monthly period, kept as the pair behind its "YYYY-MM" label.
MonthOf(t) == CivilOf(DateOf(t))

(***************************************************************************)
(* load_data                                                               *)
(***************************************************************************)
NaT == [nat |-> TRUE, t |-> 0]
NaN == [nan |-> TRUE, v |-> 0]
Val(x) == [nan |-> FALSE, v |-> x]

\* pd.to_datetime(col, unit="s", errors="coerce")
to_datetime(cell) ==
    IF cell.kind = "num" THEN [nat |-> FALSE, t |-> cell.n] ELSE NaT

\* Mutant of total_seconds: a missing start is read as the epoch.
total_seconds_StartAsEpoch(started_dt, stopped_dt) ==
    IF stopped_dt.nat THEN NaN ELSE Val(stopped_dt.t - started_dt.t)

\* (stopped_dt - started_dt).dt.total_seconds(), NaN as soon as one side is NaT
total_seconds(started_dt, stopped_dt) ==
    IF started_dt.nat \/ stopped_dt.nat THEN NaN ELSE Val(stopped_dt.t - started_dt.t)

dt_hour(started_dt) == IF started_dt.nat THEN NaN ELSE Val(HourOf(started_dt.t))

dt_day_name(started_dt) == IF started_dt.nat THEN NA ELSE DayName(started_dt.t)

load_row(r, i) ==
    LET started_dt == to_datetime(r.started)
        stopped_dt == to_datetime(r.stopped)
    IN [index |-> i,
        rating_key |-> r.rating_key, username |-> r.username,
        media_type |-> r.media_type, grandparent_title |-> r.grandparent_title,
        started |-> r.started, stopped |-> r.stopped,
        started_dt |-> started_dt, stopped_dt |-> stopped_dt,
        duration |-> total_seconds(started_dt, stopped_dt),
        hour |-> dt_hour(started_dt),
        weekday |-> dt_day_name(started_dt)]

load_data(rows) == [i \in 1..Len(rows) |-> load_row(rows[i], i)]

(***************************************************************************)
(* Sidebar filters, lines 27-36.                                           *)
(***************************************************************************)
KeyMonth(e) == IF e.started_dt.nat THEN [year |-> 0, month |-> 0] ELSE MonthOf(e.started_dt.t)
KeyYear(e)  == IF e.started_dt.nat THEN NaN ELSE Val(YearOf(e.started_dt.t))

\* frame[c], for the columns the script reads or adds.
Col(e, c) ==
    CASE c = "username" -> e.username
      [] c = "media_type" -> e.media_type
      [] c = "grandparent_title" -> e.grandparent_title
      [] c = "weekday" -> e.weekday
      [] c = "hour" -> e.hour
      [] c = "year" -> KeyYear(e)
      [] c = "month" -> KeyMonth(e)

\* Whether a value of column c is missing (NaN / NaT).
IsNA(k, c) ==
    CASE c \in {"username", "media_type", "grandparent_title", "weekday"} -> k = NA
      [] c \in {"hour", "year"} -> k.nan
      [] c = "month" -> k.month = 0

\* The sort order of the values of column c.
Rank(k, c) ==
    CASE c \in {"username", "media_type", "grandparent_title", "weekday"} -> StrRank(k)
      [] c \in {"hour", "year"} -> k.v
      [] c = "month" -> k.year * 12 + k.month

\* The values S of column c as a sequence in ascending order.
SortKeys(S, c) ==
    [i \in 1..Cardinality(S) |->
        CHOOSE x \in S : Cardinality({y \in S : Rank(y, c) < Rank(x, c)}) = i - 1]

Unique(frame, c) == { Col(frame[i], c) : i \in DOMAIN frame }

\* Series >= scalar and Series <= scalar: a missing value compares False.
date_ge(started_dt, d) == ~started_dt.nat /\ DateOf(started_dt.t) >= d
date_le(started_dt, d) == ~started_dt.nat /\ DateOf(started_dt.t) <= d
\* Mutant of duration_ge: a missing duration is compared as 0 (fillna(0)).
duration_ge_FillZero(duration, minutes) == duration.v >= minutes * 60

duration_ge(duration, minutes) == ~duration.nan /\ duration.v >= minutes * 60

Mask(e, users, media, range, dmin) ==
    /\ e.username \in users
    /\ e.media_type \in media
    /\ date_ge(e.started_dt, range[1])
    /\ date_le(e.started_dt, range[2])
    /\ duration_ge(e.duration, dmin)

ApplyMask(frame, users, media, range, dmin) ==
    LET Keep(e) == Mask(e, users, media, range, dmin)
    IN SelectSeq(frame, Keep)

\* argsort of the values v (descending); equal values keep their order under a
\* stable kind and come out in another order under an unstable one.
TieBefore(i, j, ties) == IF ties = "stable" THEN i < j ELSE i > j

ArgsortDesc(v, ties) ==
    LET n == Len(v)
        Before(i, j) == v[i] > v[j] \/ (v[i] = v[j] /\ TieBefore(i, j, ties))
    IN [p \in 1..n |->
          CHOOSE i \in 1..n : Cardinality({j \in 1..n : Before(j, i)}) = p - 1]

\* filtered.sort_values(by="duration_minutes", ascending=False)
SortByDuration(frame, ties) ==
    LET v   == [i \in 1..Len(frame) |-> frame[i].duration.v]
        idx == ArgsortDesc(v, ties)
    IN [p \in 1..Len(frame) |-> frame[idx[p]]]

(***************************************************************************)
(* Aggregations.                                                           *)
(***************************************************************************)
DurationOrZero(e) == IF e.duration.nan THEN 0 ELSE e.duration.v

\* ("rating_key", "count"): the number of non-missing rating_key cells.
CountRatingKey(frame, G) == Cardinality({ i \in G : frame[i].rating_key # NA })

\* ("duration_minutes", "sum"): missing values are skipped.
SumDuration(frame, G) == SumOver([i \in DOMAIN frame |-> DurationOrZero(frame[i])], G)

\* frame.groupby(key).agg(views=("rating_key", "count"), minutes=("duration_minutes", "sum")):
\* rows with a missing key are dropped, groups come out in ascending key order.
GroupAgg(frame, c) ==
    LET keys  == { Col(frame[i], c) : i \in { j \in DOMAIN frame : ~IsNA(Col(frame[j], c), c) } }
        grp(k) == { i \in DOMAIN frame : Col(frame[i], c) = k }
        ks    == SortKeys(keys, c)
    IN [p \in 1..Cardinality(keys) |->
          [key |-> ks[p],
           views |-> CountRatingKey(frame, grp(ks[p])),
           minutes |-> SumDuration(frame, grp(ks[p]))]]

\* summary.sort_values(by="views", ascending=False).head(top_n)
SortByViewsHead(rows, n, ties) ==
    LET v   == [i \in 1..Len(rows) |-> rows[i].views]
        idx == ArgsortDesc(v, ties)
    IN Head_n([p \in 1..Len(rows) |-> rows[idx[p]]], n)

\* Series.value_counts(): missing values dropped, keys in order of first
\* appearance, then sorted by count, descending.
value_counts(frame, c, ties) ==
    LET keys  == { k \in Unique(frame, c) : ~IsNA(k, c) }
        First(k) == CHOOSE i \in DOMAIN frame :
                       Col(frame[i], c) = k /\ \A j \in 1..(i - 1) : Col(frame[j], c) # k
        ks    == [p \in 1..Cardinality(keys) |->
                    CHOOSE x \in keys :
                       Cardinality({ y \in keys : First(y) < First(x) }) = p - 1]
        cnt   == [p \in 1..Cardinality(keys) |->
                    Cardinality({ i \in DOMAIN frame : Col(frame[i], c) = ks[p] })]
        idx   == ArgsortDesc(cnt, ties)
    IN [p \in 1..Cardinality(keys) |-> [key |-> ks[idx[p]], count |-> cnt[idx[p]]]]

\* groupby(["username", "grandparent_title"]).size().unstack(fill_value=0)
Heat(frame) ==
    LET rows  == { i \in DOMAIN frame :
                     frame[i].username # NA /\ frame[i].grandparent_title # NA }
        us    == { frame[i].username : i \in rows }
        ts    == { frame[i].grandparent_title : i \in rows }
    IN [index   |-> SortKeys(us, "username"),
        columns |-> SortKeys(ts, "grandparent_title"),
        cells   |-> [c \in us \X ts |->
                       Cardinality({ i \in rows : frame[i].username = c[1]
                                                  /\ frame[i].grandparent_title = c[2] })]]

weekday_order == DayNames

\* weekday_summary.reindex(weekday_order): a label without a group gets missing values.
Reindex(rows, order) ==
    [p \in 1..Len(order) |->
        IF \E i \in DOMAIN rows : rows[i].key = order[p]
        THEN LET r == rows[CHOOSE i \in DOMAIN rows : rows[i].key = order[p]]
             IN [key |-> order[p], views |-> Val(r.views), minutes |-> Val(r.minutes)]
        ELSE [key |-> order[p], views |-> NaN, minutes |-> NaN]]

\* Series.min() / Series.max() of the year column: NaN for an empty column.
YearsOf(frame) == { KeyYear(frame[i]).v : i \in { j \in DOMAIN frame : ~KeyYear(frame[j]).nan } }
YearMin(frame) ==
    IF YearsOf(frame) = {} THEN NaN
    ELSE Val(CHOOSE y \in YearsOf(frame) : \A z \in YearsOf(frame) : y <= z)
YearMax(frame) ==
    IF YearsOf(frame) = {} THEN NaN
    ELSE Val(CHOOSE y \in YearsOf(frame) : \A z \in YearsOf(frame) : y >= z)

\* yearly[(yearly["year"] >= year_range[0]) & (yearly["year"] <= year_range[1])]
YearSlice(frame, range) ==
    LET Keep(e) == /\ ~KeyYear(e).nan
                   /\ KeyYear(e).v >= range[1]
                   /\ KeyYear(e).v <= range[2]
    IN SelectSeq(frame, Keep)

\* len(filtered), filtered["username"].nunique(), int(filtered["duration_minutes"].sum())
Metrics(frame) ==
    [entries |-> Len(frame),
     users   |-> Cardinality(Unique(frame, "username") \ {NA}),
     minutes |-> SumDuration(frame, DOMAIN frame) \div 60]

\* filtered[[...]].rename(columns=...)
Display(frame) ==
    [i \in 1..Len(frame) |->
        [User |-> frame[i].username, MediaType |-> frame[i].media_type,
         Show |-> frame[i].grandparent_title,
         StartTime |-> frame[i].started_dt, StopTime |-> frame[i].stopped_dt,
         Duration |-> frame[i].duration]]

(***************************************************************************)
(* The script run.                                                         *)
(***************************************************************************)
NoOutputs ==
    /\ metrics = <<>> /\ top_shows = <<>> /\ top_users = <<>> /\ display_df = <<>>
    /\ monthly_summary = <<>> /\ year_range = <<>> /\ yearly_summary = <<>>
    /\ top_n = 0 /\ user_summary = <<>> /\ show_summary = <<>>
    /\ heat_df = <<>> /\ hour_summary = <<>> /\ weekday_summary = <<>>

Init ==
    /\ raw \in RawInputs
    /\ sortTies \in TiePolicies
    /\ df = <<>>
    /\ pc = "load"
    /\ user_filter = {} /\ media_filter = {} /\ date_range = <<>> /\ duration_min = 0
    /\ filtered = <<>>
    /\ NoOutputs

\* line 17
LoadData ==
    /\ pc = "load"
    /\ df' = load_data(raw)
    /\ pc' = "sidebar"
    /\ UNCHANGED <<raw, sortTies, widgets, filtered, outputs>>

\* lines 21-36: the four sidebar widgets, the mask and the sort
ApplyFilters ==
    /\ pc = "sidebar"
    /\ \E users \in SUBSET Unique(df, "username"), media \in SUBSET Unique(df, "media_type"),
          range \in DatePicks \X DatePicks, dmin \in DurationPicks :
          /\ user_filter' = users
          /\ media_filter' = media
          /\ date_range' = range
          /\ duration_min' = dmin
          /\ filtered' = SortByDuration(ApplyMask(df, users, media, range, dmin), sortTies)
    /\ pc' = "tab0"
    /\ UNCHANGED <<inputs, outputs>>

\* lines 52-65
Tab0 ==
    /\ pc = "tab0"
    /\ metrics' = Metrics(filtered)
    /\ top_shows' = Head_n(value_counts(filtered, "grandparent_title", sortTies), 5)
    /\ top_users' = Head_n(value_counts(filtered, "username", sortTies), 5)
    /\ pc' = "tab1"
    /\ UNCHANGED <<inputs, widgets, filtered, display_df, monthly_summary, year_range,
                   yearly_summary, top_n, user_summary, show_summary, heat_df,
                   hour_summary, weekday_summary>>

\* lines 68-84
Tab1 ==
    /\ pc = "tab1"
    /\ display_df' = Display(filtered)
    /\ pc' = "tab2"
    /\ UNCHANGED <<inputs, widgets, filtered, metrics, top_shows, top_users, monthly_summary,
                   year_range, yearly_summary, top_n, user_summary, show_summary,
                   heat_df, hour_summary, weekday_summary>>

\* lines 87-95
Tab2 ==
    /\ pc = "tab2"
    /\ monthly_summary' = GroupAgg(filtered, "month")
    /\ pc' = "tab3"
    /\ UNCHANGED <<inputs, widgets, filtered, metrics, top_shows, top_users, display_df,
                   year_range, yearly_summary, top_n, user_summary, show_summary,
                   heat_df, hour_summary, weekday_summary>>

\* line 101 with an empty year column: int(NaN) raises ValueError and the run ends
Tab3Raise ==
    /\ pc = "tab3"
    /\ YearMin(filtered).nan
    /\ pc' = "raised"
    /\ UNCHANGED <<inputs, widgets, filtered, outputs>>

\* lines 98-110
Tab3 ==
    /\ pc = "tab3"
    /\ ~YearMin(filtered).nan
    /\ \E lo \in YearMin(filtered).v..YearMax(filtered).v :
         \E hi \in lo..YearMax(filtered).v :
          /\ year_range' = <<lo, hi>>
          /\ yearly_summary' = GroupAgg(YearSlice(filtered, <<lo, hi>>), "year")
    /\ pc' = "tab4"
    /\ UNCHANGED <<inputs, widgets, filtered, metrics, top_shows, top_users, display_df,
                   monthly_summary, top_n, user_summary, show_summary,
                   heat_df, hour_summary, weekday_summary>>

\* lines 113-123
Tab4 ==
    /\ pc = "tab4"
    /\ \E n \in TopNPicks :
          /\ top_n' = n
          /\ user_summary' = SortByViewsHead(GroupAgg(filtered, "username"), n, sortTies)
    /\ pc' = "tab5"
    /\ UNCHANGED <<inputs, widgets, filtered, metrics, top_shows, top_users, display_df,
                   monthly_summary, year_range, yearly_summary, show_summary,
                   heat_df, hour_summary, weekday_summary>>

\* lines 126-138
Tab5 ==
    /\ pc = "tab5"
    /\ \E n \in TopNPicks :
          /\ top_n' = n
          /\ show_summary' = SortByViewsHead(GroupAgg(filtered, "grandparent_title"), n, sortTies)
    /\ pc' = "tab6"
    /\ UNCHANGED <<inputs, widgets, filtered, metrics, top_shows, top_users, display_df,
                   monthly_summary, year_range, yearly_summary, user_summary,
                   heat_df, hour_summary, weekday_summary>>

\* lines 141-147
Tab6 ==
    /\ pc = "tab6"
    /\ heat_df' = Heat(filtered)
    /\ pc' = "tab7"
    /\ UNCHANGED <<inputs, widgets, filtered, metrics, top_shows, top_users, display_df,
                   monthly_summary, year_range, yearly_summary, top_n, user_summary,
                   show_summary, hour_summary, weekday_summary>>

\* lines 150-156
Tab7 ==
    /\ pc = "tab7"
    /\ hour_summary' = GroupAgg(filtered, "hour")
    /\ pc' = "tab8"
    /\ UNCHANGED <<inputs, widgets, filtered, metrics, top_shows, top_users, display_df,
                   monthly_summary, year_range, yearly_summary, top_n, user_summary,
                   show_summary, heat_df, weekday_summary>>

\* lines 159-167
Tab8 ==
    /\ pc = "tab8"
    /\ weekday_summary' = Reindex(GroupAgg(filtered, "weekday"), weekday_order)
    /\ pc' = "done"
    /\ UNCHANGED <<inputs, widgets, filtered, metrics, top_shows, top_users, display_df,
                   monthly_summary, year_range, yearly_summary, top_n, user_summary,
                   show_summary, heat_df, hour_summary>>

\* A widget interaction reruns the script from the top; load_data is cached.
Rerun ==
    /\ pc \in {"done", "raised"}
    /\ pc' = "sidebar"
    /\ filtered' = <<>>
    /\ user_filter' = {} /\ media_filter' = {} /\ date_range' = <<>> /\ duration_min' = 0
    /\ metrics' = <<>> /\ top_shows' = <<>> /\ top_users' = <<>> /\ display_df' = <<>>
    /\ monthly_summary' = <<>> /\ year_range' = <<>> /\ yearly_summary' = <<>>
    /\ top_n' = 0 /\ user_summary' = <<>> /\ show_summary' = <<>>
    /\ heat_df' = <<>> /\ hour_summary' = <<>> /\ weekday_summary' = <<>>
    /\ UNCHANGED inputs

Next ==
    \/ LoadData
    \/ ApplyFilters
    \/ Tab0
    \/ Tab1
    \/ Tab2
    \/ Tab3Raise
    \/ Tab3
    \/ Tab4
    \/ Tab5
    \/ Tab6
    \/ Tab7
    \/ Tab8
    \/ Rerun

Spec == Init /\ [][Next]_vars

(***************************************************************************)
(* Properties.                                                             *)
(***************************************************************************)
Filtering  == pc \notin {"load", "sidebar"}
Tabs4On    == {"tab5", "tab6", "tab7", "tab8", "done"}
Tabs5On    == {"tab6", "tab7", "tab8", "done"}

Perms(n) == { q \in [1..n -> 1..n] : \A i, j \in 1..n : i # j => q[i] # q[j] }

\* The four predicates of the FilterSpec, read off the raw row.
RawStartOk(r) == r.started.kind = "num"
RawStopOk(r)  == r.stopped.kind = "num"
Satisfies(r) ==
    /\ r.username \in user_filter
    /\ r.media_type \in media_filter
    /\ RawStartOk(r)
    /\ date_range[1] * 86400 <= r.started.n
    /\ r.started.n < (date_range[2] + 1) * 86400
    /\ RawStopOk(r)
    /\ r.stopped.n - r.started.n >= 60 * duration_min

\* C1: the filtered view holds exactly the events that satisfy all four
\* predicates (user, media type, inclusive date range, minimum duration), each
\* once; an event with an unknown start or an undefined duration is never in it,
\* even with a minimum of 0; an empty user or media-type selection gives the
\* empty view.
C1_FilterExact ==
    Filtering =>
        /\ { filtered[j].index : j \in DOMAIN filtered } = { i \in DOMAIN raw : Satisfies(raw[i]) }
        /\ Len(filtered) = Cardinality({ i \in DOMAIN raw : Satisfies(raw[i]) })
        /\ \A j \in DOMAIN filtered :
              /\ filtered[j] = df[filtered[j].index]
              /\ ~filtered[j].started_dt.nat
              /\ ~filtered[j].duration.nan
        /\ (user_filter = {} \/ media_filter = {}) => filtered = <<>>

\* C1's case: with a minimum duration of 0, an event that passes the user, media
\* and date predicates but has no defined duration is left out, next to one kept.
C1_Witness ==
    /\ pc = "tab0"
    /\ duration_min = 0
    /\ Len(filtered) = 1
    /\ \E i \in DOMAIN df :
          /\ df[i].duration.nan
          /\ ~df[i].started_dt.nat
          /\ df[i].username \in user_filter
          /\ df[i].media_type \in media_filter
          /\ date_range[1] <= DateOf(df[i].started_dt.t)
          /\ DateOf(df[i].started_dt.t) <= date_range[2]

EventsWithKey(c, k) == { i \in DOMAIN filtered : Col(filtered[i], c) = k }

ViewsAreGroupSizes(rows, c) ==
    \A p \in DOMAIN rows : rows[p].views = Cardinality(EventsWithKey(c, rows[p].key))

\* C2: in every aggregate, view_count of each emitted group is the number of
\* events of the filtered set that carry the group's key, whether or not their
\* rating_key is present.
C2_ViewCountIsGroupSize ==
    pc = "done" =>
        /\ ViewsAreGroupSizes(monthly_summary, "month")
        /\ ViewsAreGroupSizes(yearly_summary, "year")
        /\ ViewsAreGroupSizes(user_summary, "username")
        /\ ViewsAreGroupSizes(show_summary, "grandparent_title")
        /\ ViewsAreGroupSizes(hour_summary, "hour")
        /\ \A p \in DOMAIN weekday_summary :
              ~weekday_summary[p].views.nan =>
                  weekday_summary[p].views.v
                      = Cardinality(EventsWithKey("weekday", weekday_summary[p].key))

MinutesOf(rows) == SumOver([p \in DOMAIN rows |-> rows[p].minutes], DOMAIN rows)
DefinedMinutes(frame) ==
    SumOver([i \in DOMAIN frame |-> IF frame[i].duration.nan THEN 0 ELSE frame[i].duration.v],
            DOMAIN frame)

\* C3: for every grouping, total_minutes summed over the emitted rows is the
\* sum of the defined durations of the filtered set (for the year grouping, of
\* the filtered set within the chosen year range); nothing is lost to a missing
\* grouping field or to the top-N cut.
C3_MinutesConserved ==
    pc = "done" =>
        /\ MinutesOf(monthly_summary) = DefinedMinutes(filtered)
        /\ MinutesOf(yearly_summary) = DefinedMinutes(YearSlice(filtered, year_range))
        /\ MinutesOf(user_summary) = DefinedMinutes(filtered)
        /\ MinutesOf(show_summary) = DefinedMinutes(filtered)
        /\ MinutesOf(hour_summary) = DefinedMinutes(filtered)
        /\ SumOver([p \in DOMAIN weekday_summary |->
                      IF weekday_summary[p].minutes.nan THEN 0 ELSE weekday_summary[p].minutes.v],
                   DOMAIN weekday_summary) = DefinedMinutes(filtered)

\* C4: a weekday without a matching event in the filtered set is emitted with
\* view_count = 0 and total_minutes = 0, numeric zeros.
C4_AbsentWeekdayIsZero ==
    pc = "done" =>
        \A p \in DOMAIN weekday_summary :
            EventsWithKey("weekday", weekday_summary[p].key) = {} =>
                /\ weekday_summary[p].views = Val(0)
                /\ weekday_summary[p].minutes = Val(0)

\* C5: a date range with start_date later than end_date ends the filter step in
\* an explicit rejected-input outcome; no filtered view is produced and the run
\* does not go on as it does for a valid query that matches nothing.
C5_InvertedRangeRejected ==
    (date_range # <<>> /\ date_range[1] > date_range[2]) => pc = "rejected"

\* C6: with an empty filtered sequence the run raises nowhere: it goes through
\* every aggregation step, each of month, year, user, title, hour and user-by-title
\* with zero rows, and ends with the seven-row weekday aggregate.
C6_EmptyRunCompletes ==
    (Filtering /\ filtered = <<>>) =>
        /\ pc # "raised"
        /\ pc = "done" =>
              /\ monthly_summary = <<>> /\ yearly_summary = <<>>
              /\ user_summary = <<>> /\ show_summary = <<>>
              /\ hour_summary = <<>> /\ heat_df.cells = << >>
              /\ Len(weekday_summary) = 7

\* The first n rows in the order: count descending, then key ascending.
RankedHead(rows, n) ==
    LET m == Len(rows)
        Before(i, j) == \/ rows[i].views > rows[j].views
                        \/ (rows[i].views = rows[j].views
                            /\ StrRank(rows[i].key) < StrRank(rows[j].key))
        ranked == [p \in 1..m |->
                     rows[CHOOSE i \in 1..m : Cardinality({j \in 1..m : Before(j, i)}) = p - 1]]
    IN Head_n(ranked, n)

\* A dashboard list: count descending, equal counts by key ascending, every
\* key of the column present up to n.
IsRanked(out, c, n) ==
    /\ \A p \in 1..(Len(out) - 1) :
          \/ out[p].count > out[p + 1].count
          \/ (out[p].count = out[p + 1].count
              /\ StrRank(out[p].key) < StrRank(out[p + 1].key))
    /\ Len(out) <= n
    /\ Cardinality(Unique(filtered, c) \ {NA}) <= n
          => { out[p].key : p \in DOMAIN out } = Unique(filtered, c) \ {NA}

\* C7: the top-N user and title aggregates (and the dashboard's top-5 lists) are
\* ordered by view_count descending, equal counts by key ascending, and are the
\* first min(N, number of keys) groups of that order.
C7_TopNOrder ==
    /\ pc = "tab5" =>
          user_summary = RankedHead(GroupAgg(filtered, "username"), top_n)
    /\ pc \in Tabs5On =>
          show_summary = RankedHead(GroupAgg(filtered, "grandparent_title"), top_n)
    /\ pc \notin {"load", "sidebar", "tab0"} =>
          /\ IsRanked(top_users, "username", 5)
          /\ IsRanked(top_shows, "grandparent_title", 5)

Permuted(rows, q) == [i \in 1..Len(rows) |-> rows[q[i]]]
FilteredOf(rows) ==
    SortByDuration(ApplyMask(load_data(rows), user_filter, media_filter, date_range,
                             duration_min), sortTies)

\* C8: the ranked and grouped outputs do not depend on the order of the input
\* rows: any permutation of the input gives, for the same FilterSpec and N, the
\* same top-N user and title rankings, the same dashboard top-5 lists and the
\* same month and year aggregates, the latter two in ascending chronological order.
C8_OrderIndependent ==
    \A q \in Perms(Len(raw)) :
        LET f2 == FilteredOf(Permuted(raw, q)) IN
        /\ pc \notin {"load", "sidebar", "tab0"} =>
              /\ top_users = Head_n(value_counts(f2, "username", sortTies), 5)
              /\ top_shows = Head_n(value_counts(f2, "grandparent_title", sortTies), 5)
        /\ pc \notin {"load", "sidebar", "tab0", "tab1", "tab2", "raised"} =>
              /\ monthly_summary = GroupAgg(f2, "month")
              /\ \A p \in 1..(Len(monthly_summary) - 1) :
                    Rank(monthly_summary[p].key, "month") < Rank(monthly_summary[p + 1].key, "month")
        /\ pc \in {"tab4"} \cup Tabs4On =>
              /\ yearly_summary = GroupAgg(YearSlice(f2, year_range), "year")
              /\ \A p \in 1..(Len(yearly_summary) - 1) :
                    yearly_summary[p].key.v < yearly_summary[p + 1].key.v
        /\ pc = "tab5" =>
              user_summary = SortByViewsHead(GroupAgg(f2, "username"), top_n, sortTies)
        /\ pc \in Tabs5On =>
              show_summary = SortByViewsHead(GroupAgg(f2, "grandparent_title"), top_n, sortTies)

\* C9: every run over a filtered input, the empty one included, ends with a
\* weekday aggregate of exactly 7 rows keyed Monday, ..., Sunday in that order.
C9_WeekdaySevenRows ==
    pc \in {"done", "raised"} =>
        [p \in 1..Len(weekday_summary) |-> weekday_summary[p].key]
            = <<"Monday", "Tuesday", "Wednesday", "Thursday", "Friday", "Saturday", "Sunday">>

\* C10: load_data yields one event per raw row, in input order, whatever the
\* started and stopped cells hold; duration_minutes is defined exactly when both
\* parsed, hour and weekday exactly when started parsed.
C10_NormalizeTotal ==
    pc # "load" =>
        /\ Len(df) = Len(raw)
        /\ \A i \in DOMAIN raw :
              /\ df[i].index = i
              /\ df[i].rating_key = raw[i].rating_key
              /\ df[i].username = raw[i].username
              /\ df[i].media_type = raw[i].media_type
              /\ df[i].grandparent_title = raw[i].grandparent_title
              /\ df[i].started = raw[i].started /\ df[i].stopped = raw[i].stopped
              /\ df[i].started_dt.nat <=> ~RawStartOk(raw[i])
              /\ df[i].stopped_dt.nat <=> ~RawStopOk(raw[i])
              /\ ~df[i].duration.nan <=> (RawStartOk(raw[i]) /\ RawStopOk(raw[i]))
              /\ ~df[i].hour.nan <=> RawStartOk(raw[i])
              /\ df[i].weekday # NA <=> RawStartOk(raw[i])

\* C10's case: a frame loaded from a row whose started cell is unparseable text
\* and a row whose stopped cell is missing.
C10_Witness ==
    /\ pc = "sidebar"
    /\ Len(df) = 2
    /\ \E i \in DOMAIN raw : raw[i].started.kind = "text" /\ raw[i].stopped.kind = "num"
    /\ \E i \in DOMAIN raw : raw[i].stopped.kind = "missing" /\ raw[i].started.kind = "num"

====
